---- MODULE Spec2Model ----
(***************************************************************************)
(* A model of the khinsider album downloader.                              *)
(*                                                                         *)
(*   src/khinsider_downloader.py  KhinsiderDownloader.get_album            *)
(*   src/main.py                  get_album_info, choose_audio_format,     *)
(*                                prepare_download_directory,              *)
(*                                download_soundtracks, the top-level loop *)
(*                                                                         *)
(* Text is a sequence of one-character strings, so that strip, split,      *)
(* replace, int and unquote are computed character by character.           *)
(***************************************************************************)
EXTENDS Integers, Sequences, FiniteSets

VARIABLES
    page,       \* SpecParse: the album page handed to the parsers
    album,      \* SpecParse: what KhinsiderDownloader.get_album produced
    info,       \* SpecParse: what main.get_album_info produced
    href,       \* SpecResolve: the raw href of the chosen download link
    target,     \* SpecResolve: what the track resolution produced
    pc,             \* where the top-level loop of main.py stands
    album_url,      \* the album URL typed last
    audio_format,   \* the index of the chosen format
    dir_out,        \* the output directory prepare_download_directory returned
    trackIdx,       \* the place in soundtracks_page_url of the track at hand
    download_count, \* the files downloaded in this run
    detail,         \* the download links of the track page fetched last
    handle,         \* the output file of the with-block of download_soundtracks
    continue_,      \* the answer read at the continue prompt, "" when none is
    dirs,           \* the filesystem: what each directory path is
    files,          \* the filesystem: the files of the music directory
    calls,          \* the HTTP requests the last step issued
    printed         \* the message the last step printed

parseVars == <<page, album, info>>
resolveVars == <<href, target>>
runVars == <<pc, album_url, audio_format, dir_out, trackIdx, download_count,
             detail, handle, continue_>>
worldVars == <<dirs, files, calls, printed>>
mainVars == <<runVars, worldVars>>

----------------------------------------------------------------------------
(* Bounds of the model.                                                    *)

\* the most header cells of an enumerated soundtracks table
MaxCells == 5
\* the most clickable-row cells of an enumerated album page
MaxTds == 9
\* the most characters of an enumerated raw href
MaxHrefLen == 5
\* the chunks of a complete file
MaxChunks == 2

----------------------------------------------------------------------------
(* Python's sequence and string primitives.                                *)

Min(a, b) == IF a < b THEN a ELSE b
Max(a, b) == IF a > b THEN a ELSE b

\* all sequences over S of length 0..n
SeqsUpTo(S, n) == UNION {[1..m -> S] : m \in 0..n}

\* s[a:b] for a negative start a and a negative stop b (Python clamps both)
PySlice(s, a, b) ==
    LET n == Len(s)
        lo == Max(n + a, 0)
        hi == Max(n + b, 0)
    IN  IF hi <= lo THEN <<>> ELSE SubSeq(s, lo + 1, hi)

\* a slice that starts one cell late: s[1::4]
SliceFromSecond(s) ==
    [j \in 1..((Len(s) + 2) \div 4) |-> s[4 * (j - 1) + 2]]

\* s[::4], 1-based positions 1, 5, 9, ...
SliceStep4(s) ==
    [j \in 1..((Len(s) + 3) \div 4) |-> s[4 * (j - 1) + 1]]

\* [x for i, x in enumerate(s) if i % 4 == 0]
RECURSIVE FilterIndexMod4(_, _)
FilterIndexMod4(s, i) ==
    IF i >= Len(s) THEN <<>>
    ELSE (IF i % 4 = 0 THEN <<s[i + 1]>> ELSE <<>>) \o FilterIndexMod4(s, i + 1)

\* str.strip(): leading and trailing whitespace removed
RECURSIVE LStrip(_)
LStrip(s) == IF s # <<>> /\ Head(s) = " " THEN LStrip(Tail(s)) ELSE s

RECURSIVE RStrip(_)
RStrip(s) ==
    IF s # <<>> /\ s[Len(s)] = " " THEN RStrip(SubSeq(s, 1, Len(s) - 1)) ELSE s

Strip(s) == RStrip(LStrip(s))

\* s.split(' ')[0]: the text before the first space
RECURSIVE SplitFirst(_)
SplitFirst(s) ==
    IF s = <<>> \/ Head(s) = " " THEN <<>> ELSE <<Head(s)>> \o SplitFirst(Tail(s))

\* s.replace(',', '')
RemoveCommas(s) == SelectSeq(s, LAMBDA c : c # ",")

DigitChars == <<"0", "1", "2", "3", "4", "5", "6", "7", "8", "9">>

IsDigit(c) == \E d \in 1..10 : DigitChars[d] = c

DigitVal(c) == (CHOOSE d \in 1..10 : DigitChars[d] = c) - 1

\* whether int(s) succeeds, for text without sign, underscore or padding
IntOK(s) == s # <<>> /\ \A i \in 1..Len(s) : IsDigit(s[i])

RECURSIVE IntVal(_)
IntVal(s) ==
    IF s = <<>> THEN 0
    ELSE 10 * IntVal(SubSeq(s, 1, Len(s) - 1)) + DigitVal(s[Len(s)])

\* str(i) for i >= 0
RECURSIVE Dec(_)
Dec(i) == IF i < 10 THEN <<DigitChars[i + 1]>>
          ELSE Dec(i \div 10) \o <<DigitChars[(i % 10) + 1]>>

----------------------------------------------------------------------------
(* The texts of the album page.                                            *)

MP3 == <<"M", "P", "3">>
FLAC == <<"F", "L", "A", "C">>
PaddedFLAC == <<" ", "F", "L", "A", "C", " ">>
Empty == <<>>
Blank == <<" ">>
Duration == <<"1", ":", "2", "3">>
Size5 == <<"5", " ", "M", "B">>
Size1234 == <<"1", ",", "2", "3", "4", " ", "M", "B">>
SongName == <<"S", "o", "n", "g">>
Total == <<"T", "o", "t", "a", "l", ":">>
Title == <<"M", "i", "n", "e", "c", "r", "a", "f", "t">>

\* the header cells a page of the model is built from
NameCells == {MP3, PaddedFLAC}
SizeCells == {Size5, Size1234}
Cells == NameCells \cup SizeCells \cup {Empty, Blank, Duration}

\* what the spec's size examples say each size text is worth, in bytes
ExpectedBytes(text) ==
    CASE text = Size5 -> 5000000
      [] text = Size1234 -> 1234000000
      [] OTHER -> -1

BASE_URL == <<"https://downloads.khinsider.com">>
ALBUM_DIR == <<"/game-soundtracks/album/">>

\* 'https://downloads.khinsider.com/game-soundtracks/album/'
AlbumPrefix == BASE_URL \o ALBUM_DIR

\* the href of the anchor inside the i-th clickable-row cell (i from 0)
TdHref(i) == <<"/", "t", "d">> \o Dec(i)

\* n clickable-row cells, each with an href of its own
DistinctTds(n) == [i \in 1..n |-> TdHref(i - 1)]

\* a page: its h2 elements, its tables (each one the texts of its th cells),
\* and the hrefs of the clickable-row cells after the second table
Page(h2s, tables, tds) == [h2s |-> h2s, tables |-> tables, tds |-> tds]

\* the site's layout: a header row naming the formats, a footer row with the
\* total duration and one size per format
SiteThs(names, sizes) ==
    <<Blank, SongName>> \o names \o <<Blank>> \o <<Total, Duration>> \o sizes \o <<Blank>>

----------------------------------------------------------------------------
(* Album parsing.                                                          *)

Raise(e) == [kind |-> "raised", exc |-> e]
NotRun == [kind |-> "none"]

\* a search that falls back on the first cell: next(..., 0)
Mp3IndexOrFirst(ths) ==
    IF \E i \in 1..Len(ths) : ths[i] = MP3
    THEN CHOOSE i \in 1..Len(ths) :
            ths[i] = MP3 /\ \A j \in 1..(i - 1) : ths[j] # MP3
    ELSE IF ths = <<>> THEN 0 ELSE 1

\* next(i for i, th in enumerate(ths) if th.text == "MP3"); 0 when exhausted
Mp3Index(ths) ==
    IF \E i \in 1..Len(ths) : ths[i] = MP3
    THEN CHOOSE i \in 1..Len(ths) :
            ths[i] = MP3 /\ \A j \in 1..(i - 1) : ths[j] # MP3
    ELSE 0

\* a run that keeps the cells' texts as they are, without strip()
RECURSIVE FormatRunUnstripped(_, _)
FormatRunUnstripped(ths, i) ==
    IF i > Len(ths) \/ Strip(ths[i]) = <<>> THEN <<>>
    ELSE <<ths[i]>> \o FormatRunUnstripped(ths, i + 1)

\* the stripped texts from position i up to, not including, the first cell
\* whose stripped text is empty
RECURSIVE FormatRun(_, _)
FormatRun(ths, i) ==
    IF i > Len(ths) \/ Strip(ths[i]) = <<>> THEN <<>>
    ELSE <<Strip(ths[i])>> \o FormatRun(ths, i + 1)

\* s.split(' ')[0].replace(',', '')
SizeToken(text) == RemoveCommas(SplitFirst(text))

\* a binary megabyte: * 1_048_576
SizeBytesBinary(text) == IntVal(SizeToken(text)) * 1048576

\* int(s.split(' ')[0].replace(',', '')) * 1_000_000
SizeBytes(text) == IntVal(SizeToken(text)) * 1000000

\* zip(a, b) as a sequence of [name, size] records
Zip(a, b) == [i \in 1..Min(Len(a), Len(b)) |-> [name |-> a[i], size |-> b[i]]]

\* KhinsiderDownloader.get_album on a fetched page
get_album(pg) ==
    IF pg.h2s = <<>> THEN Raise("AttributeError")
    ELSE IF Len(pg.tables) < 2 THEN Raise("IndexError")
    ELSE
    LET th_list == pg.tables[2]
        mp3_index == Mp3Index(th_list)
    IN  IF mp3_index = 0 THEN Raise("StopIteration")
        ELSE
        LET album_formats == FormatRun(th_list, mp3_index)
            cut == PySlice(th_list, -(Len(album_formats) + 2), -1)
        IN  IF cut = <<>> THEN Raise("ValueError")
            ELSE
            LET texts == Tail(cut)
            IN  IF \E i \in 1..Len(texts) : ~IntOK(SizeToken(texts[i]))
                THEN Raise("ValueError")
                ELSE [kind |-> "returned",
                      title |-> Head(pg.h2s),
                      duration |-> Head(cut),
                      formats_and_sizes |->
                          Zip(album_formats,
                              [i \in 1..Len(texts) |-> SizeBytes(texts[i])]),
                      soundtrack_urls |->
                          LET urls == FilterIndexMod4(pg.tds, 0)
                          IN  [j \in 1..Len(urls) |-> BASE_URL \o urls[j]]]

\* the sizes below 2148 MB with s / 1000 halfway between two hundredths
\* whose binary float lies below the half, so that round(.., 2) goes down
HalfRoundsDown ==
    {15, 45, 75, 105, 125, 145, 155, 175, 185, 205, 215, 235, 245, 285, 295,
     305, 345, 355, 365, 415, 425, 435, 475, 485, 495, 565, 575, 585, 595,
     605, 615, 625, 695, 705, 715, 725, 735, 745, 815, 825, 835, 845, 855,
     865, 945, 955, 965, 975, 985, 995, 1005, 1015, 1025, 1035, 1045, 1055,
     1065, 1075, 1085, 1095, 1105, 1115, 1125, 1255, 1265, 1275, 1285, 1295,
     1305, 1315, 1325, 1335, 1345, 1355, 1365, 1505, 1515, 1525, 1535, 1545,
     1555, 1565, 1575, 1585, 1595, 1605, 1615, 1625, 1755, 1765, 1775, 1785,
     1795, 1805, 1815, 1825, 1835, 1845, 1855, 1865, 2005, 2025, 2045, 2065,
     2085, 2105, 2125, 2135}

\* mb_to_gb: round(megabytes / 1000, 2), in hundredths of a gigabyte
mb_to_gb(megabytes) ==
    IF megabytes \in HalfRoundsDown THEN megabytes \div 10
    ELSE (megabytes + 5) \div 10

\* str() of the float h / 100: "1.23", "1.5", "5.0"
FloatStr(h) ==
    Dec(h \div 100) \o <<".">> \o
    (IF h % 10 = 0 THEN Dec((h % 100) \div 10)
     ELSE Dec((h % 100) \div 10) \o Dec(h % 10))

\* f'{mb_to_gb(s)} GB' for every size when one is 1000 MB or more, else f'{s} MB'
DisplaySizes(spaces) ==
    IF \E i \in 1..Len(spaces) : spaces[i] >= 1000
    THEN [i \in 1..Len(spaces) |->
             FloatStr(mb_to_gb(spaces[i])) \o <<" ", "G", "B">>]
    ELSE [i \in 1..Len(spaces) |-> Dec(spaces[i]) \o <<" ", "M", "B">>]

\* dict(pairs): a key keeps the place of its first insertion and the value of
\* its last
RECURSIVE DictOf(_)
DictOf(pairs) ==
    IF pairs = <<>> THEN <<>>
    ELSE
    LET d == DictOf(SubSeq(pairs, 1, Len(pairs) - 1))
        last == pairs[Len(pairs)]
    IN  IF \E i \in 1..Len(d) : d[i].name = last.name
        THEN [i \in 1..Len(d) |-> IF d[i].name = last.name THEN last ELSE d[i]]
        ELSE Append(d, last)

\* url contains sub: 'sub in url'
Contains(url, sub) ==
    \E i \in 0..(Len(url) - Len(sub)) : SubSeq(url, i + 1, i + Len(sub)) = sub

\* main.get_album_info, given the page the album URL serves
get_album_info(url, pg) ==
    IF ~Contains(url, AlbumPrefix) THEN Raise("InvalidUrl")
    ELSE IF pg.h2s = <<>> THEN Raise("AttributeError")
    ELSE IF Len(pg.tables) < 2 THEN Raise("IndexError")
    ELSE
    LET ths == pg.tables[2]
        mp3_index == Mp3Index(ths)
    IN  IF mp3_index = 0 THEN Raise("StopIteration")
        ELSE
        LET audio_formats == FormatRun(ths, mp3_index)
            cut == PySlice(ths, -(Len(audio_formats) + 2), -1)
        IN  IF cut = <<>> THEN Raise("ValueError")
            ELSE
            LET texts == Tail(cut)
            IN  IF \E i \in 1..Len(texts) : ~IntOK(SizeToken(texts[i]))
                THEN Raise("ValueError")
                ELSE
                LET spaces == [i \in 1..Len(texts) |-> IntVal(SizeToken(texts[i]))]
                    tds == SliceStep4(pg.tds)
                IN  [kind |-> "returned",
                     title |-> Head(pg.h2s),
                     duration |-> Head(cut),
                     audios |-> DictOf(Zip(audio_formats, DisplaySizes(spaces))),
                     soundtracks_page_url |->
                         [j \in 1..Len(tds) |-> BASE_URL \o tds[j]]]

----------------------------------------------------------------------------
(* SpecParse: both parsers applied to one album page.                      *)

\* the tables before the soundtracks table
NavTable == <<>>

\* every header row of at most MaxCells cells, on a page with one track row
ShortPages ==
    {Page(<<Title>>, <<NavTable, ths>>, DistinctTds(4)) :
        ths \in SeqsUpTo(Cells, MaxCells)}

\* the site's layout with one or two formats, or with the title or the
\* soundtracks table missing, and 0..MaxTds clickable-row cells
SitePages ==
    {Page(h2s, tables, DistinctTds(n)) :
        h2s \in {<<>>, <<Title>>},
        tables \in
            {<<NavTable>>} \cup
            {<<NavTable, SiteThs(<<MP3>>, <<s>>)>> : s \in SizeCells} \cup
            {<<NavTable, SiteThs(<<MP3, f>>, <<s, t>>)>> :
                f \in NameCells, s \in SizeCells, t \in SizeCells},
        n \in 0..MaxTds}

Pages == ShortPages \cup SitePages

\* an album URL the prefix check accepts
MinecraftUrl == AlbumPrefix \o <<"minecraft">>

ResolveIdle == href = <<>> /\ target = NotRun

\* what a message printed by the program is: its kind, the URL it shows, and
\* the text it shows (a file name, a path, or the name of the exception)
Printed(kind, url, what) == [kind |-> kind, url |-> url, what |-> what]
NoPrint == Printed("none", <<>>, <<>>)

Closed == [open |-> FALSE, name |-> <<>>]

\* the top-level loop of main.py not started
MainIdle ==
    /\ pc = "idle"
    /\ album_url = <<>>
    /\ audio_format = 0
    /\ dir_out = <<>>
    /\ trackIdx = 0
    /\ download_count = 0
    /\ detail = <<>>
    /\ handle = Closed
    /\ continue_ = ""
    /\ dirs = <<>>
    /\ files = <<>>
    /\ calls = <<>>
    /\ printed = NoPrint

InitParse ==
    /\ page \in Pages
    /\ album = NotRun
    /\ info = NotRun
    /\ ResolveIdle
    /\ MainIdle

\* khin = KhinsiderDownloader(album_id); khin.get_album()
GetAlbum ==
    /\ album = NotRun
    /\ album' = get_album(page)
    /\ UNCHANGED <<page, info, resolveVars, mainVars>>

\* get_album_info(album_url)
GetAlbumInfo ==
    /\ info = NotRun
    /\ info' = get_album_info(MinecraftUrl, page)
    /\ UNCHANGED <<page, album, resolveVars, mainVars>>

NextParse == GetAlbum \/ GetAlbumInfo

vars == <<page, album, info, href, target, runVars, worldVars>>

SpecParse == InitParse /\ [][NextParse]_vars

----------------------------------------------------------------------------
(* What the claims about album parsing speak of, stated without the        *)
(* parsers' own helpers.                                                   *)

\* the text of cell c between its first and its last non-space character
Trimmed(c) ==
    LET idx == {x \in 1..Len(c) : c[x] # " "}
    IN  IF idx = {} THEN <<>>
        ELSE SubSeq(c, CHOOSE x \in idx : \A y \in idx : x <= y,
                       CHOOSE x \in idx : \A y \in idx : x >= y)

\* the page has a title and a second table
HasSoundtracksTable(pg) == pg.h2s # <<>> /\ Len(pg.tables) >= 2

HasMp3(ths) == \E i \in 1..Len(ths) : ths[i] = MP3

\* the first header cell whose text is exactly "MP3"
FirstMp3(ths) ==
    CHOOSE i \in 1..Len(ths) : ths[i] = MP3 /\ \A j \in 1..(i - 1) : ths[j] # MP3

\* "MP3" at i, k-1 further non-empty cells, then an empty one
RunAt(ths, i, k) ==
    /\ k >= 1
    /\ i + k <= Len(ths)
    /\ ths[i] = MP3
    /\ \A j \in 1..(k - 1) : Trimmed(ths[i + j]) # <<>>
    /\ Trimmed(ths[i + k]) = <<>>

\* the page lists k formats after its first "MP3" header cell
ListsFormats(pg, k) ==
    /\ HasSoundtracksTable(pg)
    /\ HasMp3(pg.tables[2])
    /\ RunAt(pg.tables[2], FirstMp3(pg.tables[2]), k)

\* the k names the header row shows
HeaderNames(pg, k) ==
    LET ths == pg.tables[2]
    IN  [j \in 1..k |-> Trimmed(ths[FirstMp3(ths) + j - 1])]

\* the i-th of the k sizes: the (k+1)-th-from-last .. 2nd-from-last cells
SizeCell(pg, k, i) == pg.tables[2][Len(pg.tables[2]) - k - 1 + i]

\* "<digits>[,<digits>] MB"
IsSizeText(c) ==
    /\ Len(c) >= 4
    /\ SubSeq(c, Len(c) - 2, Len(c)) = <<" ", "M", "B">>
    /\ IsDigit(c[1])
    /\ IsDigit(c[Len(c) - 3])
    /\ \A x \in 1..(Len(c) - 3) : IsDigit(c[x]) \/ c[x] = ","

\* the footer row carries a duration cell and k size texts before its last cell
HasSizeRow(pg, k) ==
    /\ Len(pg.tables[2]) >= k + 2
    /\ \A i \in 1..k : IsSizeText(SizeCell(pg, k, i))

NamesOf(entries) == [i \in 1..Len(entries) |-> entries[i].name]

Distinct(s) == \A i, j \in 1..Len(s) : s[i] = s[j] => i = j

\* s without the later repetitions of its elements
RECURSIVE FirstOccurrences(_)
FirstOccurrences(s) ==
    IF s = <<>> THEN <<>>
    ELSE LET r == FirstOccurrences(SubSeq(s, 1, Len(s) - 1))
         IN  IF \E i \in 1..Len(r) : r[i] = s[Len(s)] THEN r
             ELSE Append(r, s[Len(s)])

\* C1 as first stated: every page that lists k formats after "MP3" gives
\* exactly k format entries, named by the trimmed header texts in order,
\* from get_album and from get_album_info alike.
C1_Original ==
    \A k \in 1..Len(page.tables[Len(page.tables)]) :
        ListsFormats(page, k) =>
            /\ album.kind # "none" =>
                  /\ album.kind = "returned"
                  /\ NamesOf(album.formats_and_sizes) = HeaderNames(page, k)
            /\ info.kind # "none" =>
                  /\ info.kind = "returned"
                  /\ NamesOf(info.audios) = HeaderNames(page, k)

\* C1, amended: on a page that lists k formats after "MP3" and whose footer
\* row carries k size texts in its (k+1)-th-from-last to 2nd-from-last cells,
\* get_album returns exactly k format entries named by the trimmed header
\* texts in left-to-right order, stopping at the first empty cell;
\* get_album_info returns the same names with a repeated name kept once, so
\* exactly k entries when the names differ.
C1_FormatNames ==
    \A k \in 1..Len(page.tables[Len(page.tables)]) :
        (ListsFormats(page, k) /\ HasSizeRow(page, k)) =>
            /\ album.kind # "none" =>
                  /\ album.kind = "returned"
                  /\ Len(album.formats_and_sizes) = k
                  /\ NamesOf(album.formats_and_sizes) = HeaderNames(page, k)
            /\ info.kind # "none" =>
                  /\ info.kind = "returned"
                  /\ NamesOf(info.audios) = FirstOccurrences(HeaderNames(page, k))
                  /\ Distinct(HeaderNames(page, k)) => Len(info.audios) = k

\* two formats, the second padded in the header, parsed by both parsers
C1_Witness ==
    /\ ListsFormats(page, 2) /\ HasSizeRow(page, 2)
    /\ HeaderNames(page, 2) = <<MP3, FLAC>>
    /\ album.kind = "returned" /\ Len(album.formats_and_sizes) = 2
    /\ info.kind = "returned" /\ Len(info.audios) = 2

\* the page lists k formats and its k size cells are among the spec's examples
ListsKnownSizes(pg, k) ==
    /\ ListsFormats(pg, k)
    /\ Len(pg.tables[2]) >= k + 2
    /\ \A i \in 1..k : ExpectedBytes(SizeCell(pg, k, i)) # -1

\* the text before the first c in s, and the text after it
BeforeChar(s, c) ==
    IF \E x \in 1..Len(s) : s[x] = c
    THEN SubSeq(s, 1, (CHOOSE x \in 1..Len(s) :
                          s[x] = c /\ \A y \in 1..(x - 1) : s[y] # c) - 1)
    ELSE s
AfterChar(s, c) ==
    IF \E x \in 1..Len(s) : s[x] = c
    THEN SubSeq(s, (CHOOSE x \in 1..Len(s) :
                       s[x] = c /\ \A y \in 1..(x - 1) : s[y] # c) + 1, Len(s))
    ELSE <<>>

\* the number of bytes a displayed size stands for: "5 MB", "1.23 GB"
DisplayedBytes(text) ==
    LET number == BeforeChar(text, " ")
        unit == AfterChar(text, " ")
        whole == BeforeChar(number, ".")
        frac == AfterChar(number, ".")
    IN  IF unit = <<"M", "B">> THEN IntVal(number) * 1000000
        ELSE (IntVal(whole) * 100
              + (IF Len(frac) = 1 THEN 10 * IntVal(frac) ELSE IntVal(frac)))
             * 10000000

\* what the display of a size example is when the album is shown in GB
ExpectedGB(text) ==
    CASE text = Size5 -> <<"0", ".", "0", "1", " ", "G", "B">>
      [] text = Size1234 -> <<"1", ".", "2", "3", " ", "G", "B">>
      [] OTHER -> <<>>

C4_TrackUrls ==
    LET n == Len(page.tds)
        expected == [j \in 1..((n + 3) \div 4) |-> BASE_URL \o TdHref(4 * (j - 1))]
    IN  /\ album.kind = "returned" =>
              /\ album.soundtrack_urls = expected
              /\ n % 4 = 0 => Len(album.soundtrack_urls) = n \div 4
        /\ info.kind = "returned" =>
              /\ info.soundtracks_page_url = expected
              /\ n % 4 = 0 => Len(info.soundtracks_page_url) = n \div 4
        /\ (album.kind = "returned" /\ info.kind = "returned") =>
              album.soundtrack_urls = info.soundtracks_page_url

\* eight marked cells, two URLs from each parser, the second from cell 4
C4_Witness ==
    /\ Len(page.tds) = 8
    /\ album.kind = "returned" /\ info.kind = "returned"
    /\ Len(album.soundtrack_urls) = 2
    /\ info.soundtracks_page_url[2] = BASE_URL \o <<"/", "t", "d", "4">>

----------------------------------------------------------------------------
(* Track resolution: from the raw href of a download link to the URL to    *)
(* fetch and the name of the file to write.                                *)

\* the printable ASCII characters, 0x20 .. 0x7E (the grave accent, which a
\* string of this language cannot hold, by a name)
Ascii ==
    <<" ", "!", "\"", "#", "$", "%", "&", "'", "(", ")", "*", "+", ",", "-",
      ".", "/", "0", "1", "2", "3", "4", "5", "6", "7", "8", "9", ":", ";",
      "<", "=", ">", "?", "@", "A", "B", "C", "D", "E", "F", "G", "H", "I",
      "J", "K", "L", "M", "N", "O", "P", "Q", "R", "S", "T", "U", "V", "W",
      "X", "Y", "Z", "[", "\\", "]", "^", "_", "<grave>", "a", "b", "c", "d", "e",
      "f", "g", "h", "i", "j", "k", "l", "m", "n", "o", "p", "q", "r", "s",
      "t", "u", "v", "w", "x", "y", "z", "{", "|", "}", "~">>

HexChars == <<"0", "1", "2", "3", "4", "5", "6", "7", "8", "9",
              "A", "B", "C", "D", "E", "F">>
HexCharsLower == <<"0", "1", "2", "3", "4", "5", "6", "7", "8", "9",
                   "a", "b", "c", "d", "e", "f">>

IsHex(c) == \E d \in 1..16 : HexChars[d] = c \/ HexCharsLower[d] = c

HexVal(c) == (CHOOSE d \in 1..16 : HexChars[d] = c \/ HexCharsLower[d] = c) - 1

\* the character of byte b; the hrefs of the model stay within 0x20 .. 0x7E
Chr(b) == IF b >= 32 /\ b <= 126 THEN Ascii[b - 31] ELSE "<other>"

\* an unquote that leaves the text as it is
UnquoteNothing(s) == s

\* urllib.parse.unquote: every %XX with two hex digits becomes its character,
\* any other % stays
RECURSIVE Unquote(_)
Unquote(s) ==
    IF s = <<>> THEN <<>>
    ELSE IF Head(s) = "%" /\ Len(s) >= 3 /\ IsHex(s[2]) /\ IsHex(s[3])
    THEN <<Chr(16 * HexVal(s[2]) + HexVal(s[3]))>> \o Unquote(SubSeq(s, 4, Len(s)))
    ELSE <<Head(s)>> \o Unquote(Tail(s))

\* s.replace('#', '%23')
RECURSIVE QuoteHash(_)
QuoteHash(s) ==
    IF s = <<>> THEN <<>>
    ELSE (IF Head(s) = "#" THEN <<"%", "2", "3">> ELSE <<Head(s)>>)
         \o QuoteHash(Tail(s))

\* s.replace('%23', '#')
RECURSIVE UnquoteHash(_)
UnquoteHash(s) ==
    IF s = <<>> THEN <<>>
    ELSE IF Len(s) >= 3 /\ SubSeq(s, 1, 3) = <<"%", "2", "3">>
    THEN <<"#">> \o UnquoteHash(SubSeq(s, 4, Len(s)))
    ELSE <<Head(s)>> \o UnquoteHash(Tail(s))

HasSlash(s) == \E x \in 1..Len(s) : s[x] = "/"

\* s.rsplit('/', 1)[1], for s with a '/'
AfterLastSlash(s) ==
    SubSeq(s, (CHOOSE x \in 1..Len(s) :
                  s[x] = "/" /\ \A y \in (x + 1)..Len(s) : s[y] # "/") + 1, Len(s))

\* download_soundtracks, from the href of the chosen link to the file path's name
ResolveTrack(raw_href) ==
    LET source_url == QuoteHash(Unquote(raw_href))
    IN  IF ~HasSlash(source_url) THEN Raise("IndexError")
        ELSE [kind |-> "returned",
              source_url |-> source_url,
              filename |-> UnquoteHash(AfterLastSlash(source_url))]

----------------------------------------------------------------------------
(* SpecResolve: track resolution applied to one raw href.                  *)

HrefChars == {"/", "T", "%", "2", "3", "5", "#"}

\* .../Track%20%2301.mp3
ExampleHref ==
    <<"/", "s", "/", "T", "r", "a", "c", "k", "%", "2", "0", "%", "2", "3",
      "0", "1", ".", "m", "p", "3">>

\* a '#' encoded twice: .../T%2523.mp3
DoubleEncodedHref ==
    <<"/", "s", "/", "T", "%", "2", "5", "2", "3", ".", "m", "p", "3">>

Hrefs == SeqsUpTo(HrefChars, MaxHrefLen) \cup {ExampleHref, DoubleEncodedHref}

ParseIdle ==
    /\ page = Page(<<>>, <<>>, <<>>)
    /\ album = NotRun
    /\ info = NotRun

InitResolve ==
    /\ href \in Hrefs
    /\ target = NotRun
    /\ ParseIdle
    /\ MainIdle

\* one pass of the loop body of download_soundtracks, up to the file path
Resolve ==
    /\ target = NotRun
    /\ target' = ResolveTrack(href)
    /\ UNCHANGED <<href, parseVars, mainVars>>

NextResolve == Resolve

SpecResolve == InitResolve /\ [][NextResolve]_vars

EndsWith(s, t) == Len(s) >= Len(t) /\ SubSeq(s, Len(s) - Len(t) + 1, Len(s)) = t

\* the part of s after its last '/', s itself having one
LastSegment(s) ==
    CHOOSE seg \in {SubSeq(s, x + 1, Len(s)) : x \in 1..Len(s)} :
        /\ ~HasSlash(seg)
        /\ s[Len(s) - Len(seg)] = "/"

\* the href has a '/', written out or as the escape %2F
DecodesToSlash(h) ==
    \/ HasSlash(h)
    \/ Contains(h, <<"%", "2", "F">>)
    \/ Contains(h, <<"%", "2", "f">>)

\* C5 as first stated: the fetch URL of a resolved track has no literal '#',
\* the filename is the URL's last segment with %23 turned into '#', and the
\* href .../Track%20%2301.mp3 gives the filename "Track #01.mp3" and a fetch
\* URL ending in "Track%20%2301.mp3".
C5_Original ==
    target.kind = "returned" =>
        /\ \A x \in 1..Len(target.source_url) : target.source_url[x] # "#"
        /\ target.filename = UnquoteHash(LastSegment(target.source_url))
        /\ href = ExampleHref =>
              /\ target.filename =
                    <<"T", "r", "a", "c", "k", " ", "#", "0", "1", ".", "m", "p", "3">>
              /\ EndsWith(target.source_url,
                          <<"T", "r", "a", "c", "k", "%", "2", "0", "%", "2", "3",
                            "0", "1", ".", "m", "p", "3">>)

\* C5, amended: for every raw href whose decoded text has a '/', the fetch
\* URL has no literal '#' (each is written %23) and the filename is the last
\* '/'-delimited segment of that URL with every %23 turned into '#'; every
\* other escape is decoded in the fetch URL too, so for
\* .../Track%20%2301.mp3 the filename is "Track #01.mp3" and the fetch URL
\* ends in "Track %2301.mp3", with a literal space.  A href without '/'
\* resolves to nothing (IndexError).
C5_HashRoundTrip ==
    /\ (target.kind # "none" /\ DecodesToSlash(href)) =>
        /\ target.kind = "returned"
        /\ \A x \in 1..Len(target.source_url) : target.source_url[x] # "#"
        /\ target.filename = UnquoteHash(LastSegment(target.source_url))
        /\ href = ExampleHref =>
              /\ target.filename =
                    <<"T", "r", "a", "c", "k", " ", "#", "0", "1", ".", "m", "p", "3">>
              /\ EndsWith(target.source_url,
                          <<"T", "r", "a", "c", "k", " ", "%", "2", "3",
                            "0", "1", ".", "m", "p", "3">>)
    /\ (target.kind # "none" /\ ~DecodesToSlash(href)) =>
          target = Raise("IndexError")

\* the example href, resolved
C5_Witness ==
    /\ href = ExampleHref
    /\ target.kind = "returned"
    /\ target.filename =
          <<"T", "r", "a", "c", "k", " ", "#", "0", "1", ".", "m", "p", "3">>

----------------------------------------------------------------------------
(* The interactive program of main.py: its inputs and its world.           *)

\* another site whose address carries the album prefix as a parameter
OTHER_SITE == <<"http://mirror.example/?u=">>

\* what the user may type at the album prompt: nothing, an address without
\* the album prefix, one that starts with it, one that carries it further
\* on, and one that carries it but has no scheme
Urls ==
    {<<>>, OTHER_SITE, MinecraftUrl, OTHER_SITE \o MinecraftUrl,
     ALBUM_DIR \o MinecraftUrl}

\* str(get_input(prompt)): an empty line is None, printed "None"
TypedUrl(line) == IF line = <<>> THEN <<"None">> ELSE line

\* requests accepts the URL: it starts with a scheme
HasScheme(url) == url # <<>> /\ url[1] \in {BASE_URL[1], OTHER_SITE[1]}

\* n track rows: the site repeats the link of a row in its four cells
TrackTds(n) == [i \in 1..(4 * n) |-> TdHref((i - 1) \div 4)]

\* the album pages the site may serve
GoodPage2 ==
    Page(<<Title>>, <<NavTable, SiteThs(<<MP3, PaddedFLAC>>, <<Size5, Size1234>>)>>,
         TrackTds(2))
GoodPage1 ==
    Page(<<Title>>, <<NavTable, SiteThs(<<MP3>>, <<Size5>>)>>, TrackTds(1))
NoTitlePage == Page(<<>>, GoodPage2.tables, TrackTds(2))
OneTablePage == Page(<<Title>>, <<NavTable>>, TrackTds(2))
NoMp3Page ==
    Page(<<Title>>, <<NavTable, SiteThs(<<PaddedFLAC>>, <<Size5>>)>>, TrackTds(2))
BadSizePage ==
    Page(<<Title>>, <<NavTable, SiteThs(<<MP3>>, <<Duration>>)>>, TrackTds(2))

MainPages ==
    {GoodPage2, GoodPage1, NoTitlePage, OneTablePage, NoMp3Page, BadSizePage}

NoPage == Page(<<>>, <<>>, <<>>)

\* what a request for an album page may bring: no answer, or one of the pages
NoResponse == [ok |-> FALSE, page |-> NoPage]
Responses == {NoResponse} \cup {[ok |-> TRUE, page |-> pg] : pg \in MainPages}

\* the href of the download link of format f on the page of track i
FileHref(i, f) ==
    <<"/", "s", "/", "T", "%", "2", "3">> \o Dec(i)
    \o (IF f = 1 THEN <<".", "m", "p", "3">> ELSE <<".", "f", "l", "a", "c">>)

\* a track page with n download links
FileLinks(i, n) == [f \in 1..n |-> FileHref(i, f)]

LinkCounts == {0, 1, 2}

\* the names of the files the tracks of the model are written to
FileNames == {ResolveTrack(FileHref(i, f)).filename : i \in 1..2, f \in 1..2}

\* f'{str(Path.home())}/Music/{album_title}'
DefaultDir(album_title) == <<"~/Music/">> \o album_title

\* a path that is a regular file, and one whose parent does not exist
NotesFile == <<"~/notes.txt">>
OrphanDir == <<"/no/such/parent/out">>

Paths == {DefaultDir(Title), NotesFile, OrphanDir}

NoFile == [exists |-> FALSE, chunks |-> 0]

\* what the user may type at the format prompt, and at the continue prompt
FormatInputs == {<<>>, <<"0">>, <<"1">>, <<"2">>, <<"x">>}
Answers == {"", "y", "Y", "yes", "ok", "n", "NO", "nope", "maybe"}

----------------------------------------------------------------------------
(* The functions of main.py.                                               *)

\* a check that lets every URL through
IsInvalidUrlNever(url) == FALSE

\* 'https://downloads.khinsider.com/game-soundtracks/album/' not in url
IsInvalidUrl(url) == ~Contains(url, AlbumPrefix)

\* what get_album_info makes of each page the site may serve, once the URL
\* has passed its check
AlbumInfoOf == [pg \in MainPages |-> get_album_info(MinecraftUrl, pg)]

\* get_album_info with its request: the prefix check, then get(url), which
\* raises for a URL without scheme or when the network fails, then the parse
FetchAlbumInfo(url, ok, pg) ==
    IF IsInvalidUrl(url) THEN Raise("InvalidUrl")
    ELSE IF ~HasScheme(url) THEN Raise("MissingSchema")
    ELSE IF ~ok THEN Raise("ConnectionError")
    ELSE AlbumInfoOf[pg]

\* the handlers of the top-level loop leave the process running
ExceptHandlerExits(exc, url) ==
    [pc |-> "Stopped", printed |-> Printed("error", <<>>, <<exc>>)]

\* except InvalidUrl: print(err); continue
\* except Exception: print the URL and the error; the loop goes on
ExceptHandler(exc, url) ==
    [pc |-> "AwaitingUrl",
     printed |-> IF exc = "InvalidUrl" THEN Printed("InvalidUrl", <<>>, <<exc>>)
                 ELSE Printed("error", url, <<exc>>)]

\* choose_audio_format: int(input_) in list(range(0, length)), '' read as '0'
ChoiceOf(line) == IF line = <<>> THEN <<"0">> ELSE line
IsValidChoice(line, length) ==
    IntOK(ChoiceOf(line)) /\ IntVal(ChoiceOf(line)) \in 0..(length - 1)

\* os.mkdir(out): "created", or the exception raised
Mkdir(d, out) ==
    IF out \notin DOMAIN d THEN "FileNotFoundError"
    ELSE IF d[out] # "absent" THEN "FileExistsError"
    ELSE IF out = OrphanDir THEN "FileNotFoundError"
    ELSE "created"

\* an isfile() that never finds the file
IsFileNever(d, f, dir, name) == FALSE

\* os.path.isfile(f'{dir_out}/{filename}')
IsFile(d, f, dir, name) ==
    /\ dir \in DOMAIN d /\ d[dir] = "dir"
    /\ name \in DOMAIN f /\ f[name].exists

\* continue_.lower() and the match of the top-level loop
Lower(a) ==
    CASE a = "Y" -> "y"
      [] a = "NO" -> "no"
      [] OTHER -> a
ContinueOf(line) == Lower(IF line = "" THEN "y" ELSE line)

\* a match whose default case leaves the program
ContinueChoiceOrExit(line) ==
    IF ContinueOf(line) \in {"y", "yes", "ok"} THEN "break" ELSE "exit"

ContinueChoice(line) ==
    LET answer == ContinueOf(line)
    IN  CASE answer \in {"y", "yes", "ok"} -> "break"
          [] answer \in {"n", "no", "nope"} -> "exit"
          [] OTHER -> "continue"

----------------------------------------------------------------------------
(* Spec: the top-level loop of main.py and the functions it calls.         *)

AlbumCall(url) == [kind |-> "album", url |-> url]
DetailCall(url) == [kind |-> "detail", url |-> url]
FileCall(url) == [kind |-> "file", url |-> url]

Init ==
    /\ pc = "AwaitingUrl"
    /\ album_url = <<>>
    /\ page = NoPage
    /\ album = NotRun
    /\ info = NotRun
    /\ ResolveIdle
    /\ audio_format = 0
    /\ dir_out = <<>>
    /\ trackIdx = 0
    /\ download_count = 0
    /\ detail = <<>>
    /\ handle = Closed
    /\ continue_ = ""
    /\ dirs = [p \in Paths |-> IF p = NotesFile THEN "file" ELSE "absent"]
    /\ files = [n \in FileNames |-> NoFile]
    /\ calls = <<>>
    /\ printed = NoPrint

\* the values of a run that ended are not read again: the next run assigns
\* each before its first use
ForgetRun ==
    /\ info' = NotRun
    /\ audio_format' = 0
    /\ dir_out' = <<>>
    /\ trackIdx' = 0
    /\ download_count' = 0
    /\ handle' = Closed

\* an exception reaches the handlers of the top-level loop
Caught(exc, url) ==
    /\ pc' = ExceptHandler(exc, url).pc
    /\ printed' = ExceptHandler(exc, url).printed
    /\ ForgetRun

\* download_soundtracks goes on to the track after trackIdx, or returns
AfterTrack(count) ==
    /\ download_count' = count
    /\ trackIdx' = trackIdx + 1
    /\ pc' = IF trackIdx + 1 > Len(info.soundtracks_page_url)
             THEN "AwaitingContinue" ELSE "Downloading"

\* album_url = str(get_input(..)); get_album_info(album_url); display_album
EnterUrl ==
    /\ pc = "AwaitingUrl"
    /\ UNCHANGED continue_
    /\ \E line \in Urls, resp \in Responses :
        LET url == TypedUrl(line)
            r == FetchAlbumInfo(url, resp.ok, resp.page)
            asked == ~(r.kind = "raised" /\ r.exc \in {"InvalidUrl", "MissingSchema"})
        IN  /\ asked \/ resp = NoResponse
            /\ album_url' = url
            /\ calls' = IF asked THEN <<AlbumCall(url)>> ELSE <<>>
            /\ page' = IF asked /\ resp.ok THEN resp.page ELSE NoPage
            /\ IF r.kind = "raised"
               THEN Caught(r.exc, url)
               ELSE /\ info' = r
                    /\ printed' = Printed("album", <<>>, r.title)
                    /\ audio_format' = 0
                    /\ pc' = IF Len(r.audios) > 1 THEN "ChooseFormat"
                             ELSE "PrepareDir"
                    /\ UNCHANGED <<dir_out, trackIdx, download_count, handle>>
    /\ detail' = <<>>
    /\ UNCHANGED <<album, resolveVars, dirs, files>>

\* choose_audio_format: one pass of its prompt loop
ChooseFormat ==
    /\ pc = "ChooseFormat"
    /\ UNCHANGED continue_
    /\ \E line \in FormatInputs :
        IF IsValidChoice(line, Len(info.audios))
        THEN /\ audio_format' = IntVal(ChoiceOf(line))
             /\ pc' = "PrepareDir"
             /\ printed' = NoPrint
        ELSE /\ printed' = Printed("Invalid input", <<>>, line)
             /\ UNCHANGED <<pc, audio_format>>
    /\ calls' = <<>>
    /\ UNCHANGED <<page, album, info, resolveVars, album_url, dir_out, trackIdx,
                   download_count, detail, handle, dirs, files>>

\* prepare_download_directory: one pass of its prompt loop; when it returns,
\* download_soundtracks starts
PrepareDir ==
    /\ pc = "PrepareDir"
    /\ UNCHANGED continue_
    /\ \E line \in Paths \cup {<<>>} :
        LET out == IF line = <<>> THEN DefaultDir(info.title) ELSE line
            made == Mkdir(dirs, out)
        IN  IF made \in {"created", "FileExistsError"}
            THEN /\ dirs' = IF made = "created"
                            THEN [dirs EXCEPT ![out] = "dir"] ELSE dirs
                 /\ dir_out' = out
                 /\ trackIdx' = 1
                 /\ download_count' = 0
                 /\ printed' = Printed("files will be downloaded", <<>>, <<>>)
                 /\ pc' = IF info.soundtracks_page_url = <<>>
                          THEN "AwaitingContinue" ELSE "Downloading"
            ELSE /\ printed' = Printed("Invalid location", <<>>, out)
                 /\ UNCHANGED <<pc, dirs, dir_out, trackIdx, download_count>>
    /\ calls' = <<>>
    /\ UNCHANGED <<page, album, info, resolveVars, album_url, audio_format,
                   detail, handle, files>>

\* download_soundtracks: the body of its loop for one track, from the fetch
\* of the track page to the opening of the output file
TrackStep ==
    /\ pc = "Downloading"
    /\ UNCHANGED continue_
    /\ \E ok \in BOOLEAN, n \in LinkCounts, fileOk \in BOOLEAN :
        LET url == info.soundtracks_page_url[trackIdx]
            links == FileLinks(trackIdx, n)
            t == ResolveTrack(links[audio_format + 1])
        IN  IF ~ok
            THEN /\ calls' = <<DetailCall(url)>>
                 /\ detail' = <<>>
                 /\ Caught("ConnectionError", album_url)
                 /\ UNCHANGED files
            ELSE
            /\ detail' = links
            /\ IF audio_format >= Len(links)
               THEN /\ calls' = <<DetailCall(url)>>
                    /\ Caught("IndexError", album_url)
                    /\ UNCHANGED files
               ELSE IF t.kind = "raised"
               THEN /\ calls' = <<DetailCall(url)>>
                    /\ Caught(t.exc, album_url)
                    /\ UNCHANGED files
               ELSE IF IsFile(dirs, files, dir_out, t.filename)
               THEN /\ calls' = <<DetailCall(url)>>
                    /\ printed' = Printed("Skipping", <<>>, t.filename)
                    /\ AfterTrack(download_count)
                    /\ UNCHANGED <<info, audio_format, dir_out, handle, files>>
               ELSE IF ~fileOk
               THEN /\ calls' = <<DetailCall(url), FileCall(t.source_url)>>
                    /\ Caught("ConnectionError", album_url)
                    /\ UNCHANGED files
               ELSE IF dirs[dir_out] # "dir"
               THEN /\ calls' = <<DetailCall(url), FileCall(t.source_url)>>
                    /\ Caught("NotADirectoryError", album_url)
                    /\ UNCHANGED files
               ELSE /\ calls' = <<DetailCall(url), FileCall(t.source_url)>>
                    /\ printed' = Printed("Downloading", <<>>, t.filename)
                    /\ files' = [files EXCEPT
                                    ![t.filename] = [exists |-> TRUE, chunks |-> 0]]
                    /\ handle' = [open |-> TRUE, name |-> t.filename]
                    /\ pc' = "Streaming"
                    /\ UNCHANGED <<info, audio_format, dir_out, trackIdx,
                                   download_count>>
    /\ UNCHANGED <<page, album, resolveVars, album_url, dirs>>

\* for data in response.iter_content(block_size): file.write(data)
WriteChunk ==
    /\ pc = "Streaming"
    /\ files[handle.name].chunks < MaxChunks
    /\ files' = [files EXCEPT ![handle.name].chunks = @ + 1]
    /\ calls' = <<>>
    /\ printed' = NoPrint
    /\ UNCHANGED <<page, album, info, resolveVars, runVars, dirs>>

\* a loop that goes on to the next track with the file still open
EndOfStreamLeavesOpen ==
    /\ pc = "Streaming"
    /\ files[handle.name].chunks = MaxChunks
    /\ AfterTrack(download_count + 1)
    /\ calls' = <<>>
    /\ printed' = NoPrint
    /\ UNCHANGED <<page, album, info, resolveVars, album_url, audio_format,
                   dir_out, detail, handle, continue_, dirs, files>>

\* the response ends: the with-block closes the file, the loop goes on
EndOfStream ==
    /\ pc = "Streaming"
    /\ UNCHANGED continue_
    /\ files[handle.name].chunks = MaxChunks
    /\ handle' = Closed
    /\ AfterTrack(download_count + 1)
    /\ calls' = <<>>
    /\ printed' = IF trackIdx + 1 > Len(info.soundtracks_page_url)
                  THEN Printed("Downloads finished", <<>>, <<>>) ELSE NoPrint
    /\ UNCHANGED <<page, album, info, resolveVars, album_url, audio_format,
                   dir_out, detail, dirs, files>>

\* the connection breaks while the response is read: the with-block closes
\* the file and the exception leaves download_soundtracks
StreamBreaks ==
    /\ pc = "Streaming"
    /\ UNCHANGED continue_
    /\ files[handle.name].chunks < MaxChunks
    /\ Caught("ChunkedEncodingError", album_url)
    /\ detail' = <<>>
    /\ calls' = <<>>
    /\ UNCHANGED <<page, album, resolveVars, album_url, dirs, files>>

\* 'Do you want to continue? [Y/n]': one pass of the prompt loop
AnswerContinue ==
    /\ pc = "AwaitingContinue"
    /\ \E line \in Answers :
        LET choice == ContinueChoice(line)
        IN  /\ pc' = CASE choice = "break" -> "AwaitingUrl"
                       [] choice = "exit" -> "Stopped"
                       [] OTHER -> "AwaitingContinue"
            \* after 'break' the answer is not read again: the next pass of
            \* the prompt assigns it before its match
            /\ continue_' = IF choice = "break" THEN "" ELSE ContinueOf(line)
            /\ IF choice = "continue"
               THEN UNCHANGED <<info, audio_format, dir_out, trackIdx,
                                download_count, handle>>
               ELSE ForgetRun
    /\ detail' = <<>>
    /\ calls' = <<>>
    /\ printed' = NoPrint
    /\ UNCHANGED <<page, album, resolveVars, album_url, dirs, files>>

Next ==
    \/ EnterUrl
    \/ ChooseFormat
    \/ PrepareDir
    \/ TrackStep
    \/ WriteChunk
    \/ EndOfStream
    \/ StreamBreaks
    \/ AnswerContinue

Spec == Init /\ [][Next]_vars

----------------------------------------------------------------------------
(* The claims about the interactive program.                               *)

\* the track page was fetched and the step at "Downloading" found fewer
\* download links on it than the chosen format index needs
TooFewLinks ==
    /\ pc = "Downloading"
    /\ calls' = <<DetailCall(info.soundtracks_page_url[trackIdx])>>
    /\ printed'.what # <<"ConnectionError">>
    /\ audio_format >= Len(detail')

\* C6: with a format index at or beyond the number of download links of the
\* track page, resolving the track fails with InvalidFormatIndexError, not
\* with an out-of-range fault.
C6_Claim ==
    [][TooFewLinks =>
          /\ printed'.kind = "error"
          /\ printed'.what = <<"InvalidFormatIndexError">>]_vars

\* the file the step at "Downloading" resolves to, from the links it fetched
TargetOf(links) == ResolveTrack(links[audio_format + 1])

\* the step at "Downloading" fetched a track page whose chosen link resolves
\* to a file that the output directory already holds
TargetExists ==
    /\ pc = "Downloading"
    /\ audio_format < Len(detail')
    /\ dirs[dir_out] = "dir"
    /\ files[TargetOf(detail').filename].exists

\* C7 as first stated: a track whose target file is already there is skipped
\* with no network call at all, the file left as it is.
C7_Original ==
    [][TargetExists =>
          /\ printed'.kind = "Skipping"
          /\ calls' = <<>>
          /\ files' = files]_vars

\* C7, amended: a track whose target file is already in the output directory
\* is skipped without fetching the file again: the only request issued for
\* that track is the fetch of its detail page (which names the file), no
\* request goes to the file's URL, the existing file is left unchanged and no
\* output file is opened.
C7_SkipExisting ==
    [][TargetExists =>
          /\ printed' = Printed("Skipping", <<>>, TargetOf(detail').filename)
          /\ calls' = <<DetailCall(info.soundtracks_page_url[trackIdx])>>
          /\ files' = files
          /\ handle' = Closed
          /\ download_count' = download_count]_vars

\* a second run over the directory: a complete file is there and is skipped
C7_Witness ==
    /\ printed.kind = "Skipping"
    /\ printed.what \in FileNames
    /\ files[printed.what] = [exists |-> TRUE, chunks |-> MaxChunks]
    /\ Len(calls) = 1 /\ calls[1].kind = "detail"

\* the size row of a page that lists k formats does not parse
BadSizeRow(pg) ==
    \E k \in 1..Len(pg.tables[2]) : ListsFormats(pg, k) /\ ~HasSizeRow(pg, k)

\* the album page lacks its title, its second table, its "MP3" header, or a
\* size that parses
BrokenPage(pg) ==
    \/ pg.h2s = <<>>
    \/ Len(pg.tables) < 2
    \/ ~HasMp3(pg.tables[2])
    \/ BadSizeRow(pg)

\* C8: a parse or index error while an album is processed (no title, fewer
\* than two tables, no "MP3" header, a bad size text, a missing download
\* link) ends that album only: the error is printed with the album URL
\* typed, the process does not stop, nothing of the album is kept, and the
\* next step is the album-URL prompt.
C8_ErrorsReturnToPrompt ==
    [][(\/ pc = "AwaitingUrl" /\ page' # NoPage /\ BrokenPage(page')
        \/ TooFewLinks)
       => /\ pc' = "AwaitingUrl"
          /\ printed'.kind = "error"
          /\ printed'.url = album_url'
          /\ album_url' # <<>>
          /\ info' = NotRun]_vars

\* a page without "MP3" among its headers was served and reported
C8_Witness ==
    /\ pc = "AwaitingUrl"
    /\ page = NoMp3Page
    /\ printed = Printed("error", album_url, <<"StopIteration">>)
    /\ album_url = MinecraftUrl

StartsWith(s, t) == Len(s) >= Len(t) /\ SubSeq(s, 1, Len(t)) = t

\* the URL typed last lacks the album prefix
Rejected ==
    /\ pc = "AwaitingUrl"
    /\ calls = <<>>
    /\ printed.kind = "InvalidUrl"

\* C9 as first stated: a URL without the album prefix is rejected with
\* InvalidUrl before any fetch and the loop is back at the prompt; no album
\* page is fetched for a URL that does not begin with the prefix.
C9_Original ==
    /\ (album_url # <<>> /\ ~Contains(album_url, AlbumPrefix)) => Rejected
    /\ \A i \in 1..Len(calls) :
          calls[i].kind = "album" => StartsWith(calls[i].url, AlbumPrefix)

\* C9, amended: a URL that does not contain the album prefix is rejected with
\* InvalidUrl before any HTTP fetch is issued, and the loop returns to the
\* album-URL prompt; conversely, no album page is ever fetched for a URL that
\* does not contain that prefix (the check is a substring test: a URL that
\* carries the prefix after other text is fetched).
C9_PrefixCheck ==
    /\ (album_url # <<>> /\ ~Contains(album_url, AlbumPrefix)) => Rejected
    /\ \A i \in 1..Len(calls) :
          calls[i].kind = "album" => Contains(calls[i].url, AlbumPrefix)

\* another site's address, typed and rejected
C9_Witness ==
    /\ album_url = OTHER_SITE
    /\ Rejected

\* C10: directory preparation re-prompts after a failed creation and hands
\* download_soundtracks only a path at which a directory exists.
C10_Claim ==
    /\ printed.kind = "Invalid location" => pc = "PrepareDir"
    /\ pc \in {"Downloading", "Streaming"} => dirs[dir_out] = "dir"

\* the positions of the loop between the URL prompt and the continue prompt
Processing == {"ChooseFormat", "PrepareDir", "Downloading", "Streaming"}

Negative == {"n", "no", "nope"}

\* a step that ends an album run: the run leaves Processing, or the fetch
\* and parse of the album page fail at once
RunEnds ==
    \/ pc \in Processing /\ pc' \notin Processing
    \/ pc = "AwaitingUrl" /\ calls' # <<>> /\ pc' \notin Processing

\* C11 as first stated: after each album run, successful or failed, the
\* user is asked whether to continue before the next album-URL prompt;
\* unrecognised answers re-ask, and Stopped is reached only from
\* AwaitingContinue on n/no/nope.
C11_Original ==
    [][/\ RunEnds => pc' = "AwaitingContinue"
       /\ (pc = "AwaitingContinue" /\ continue_' \notin Negative \cup {""})
             => pc' = "AwaitingContinue"
       /\ pc' = "Stopped" => pc = "AwaitingContinue" /\ continue_' \in Negative
      ]_vars

\* C11, amended: the loop follows AwaitingUrl -> Processing ->
\* AwaitingContinue with terminal state Stopped. A run that completes
\* without an exception is followed by the continue question; a run that
\* fails with an exception is reported and goes straight back to the
\* album-URL prompt, with no question asked. At the question, y/yes/ok (or
\* an empty line) leads to the album-URL prompt, n/no/nope (in any case)
\* stops the program, and any other answer re-asks the same question.
\* Stopped is reached only from AwaitingContinue on a negative answer, and
\* nothing follows it.
C11_LoopStates ==
    [][/\ pc = "AwaitingUrl" => pc' \in {"AwaitingUrl"} \cup Processing
       /\ pc \in Processing
             => pc' \in Processing \cup {"AwaitingContinue", "AwaitingUrl"}
       /\ RunEnds => IF printed'.kind = "error"
                     THEN pc' = "AwaitingUrl"
                     ELSE pc' = "AwaitingContinue"
       /\ pc = "AwaitingContinue"
             => pc' = CASE continue_' \in Negative -> "Stopped"
                        [] continue_' = "" -> "AwaitingUrl"
                        [] OTHER -> "AwaitingContinue"
       /\ pc' = "Stopped" => pc = "AwaitingContinue" /\ continue_' \in Negative
       /\ pc # "Stopped"
      ]_vars

\* the user typed NO after a run and the program stopped
C11_Witness ==
    /\ pc = "Stopped"
    /\ continue_ = "no"

\* the step fetched a track page
FetchesDetail == \E i \in 1..Len(calls') : calls'[i].kind = "detail"

\* C12: tracks are processed one at a time in listing order: an output file
\* is open only while its track is streamed (so at most one is open), the
\* fetch of a track page happens only with no output file open and is the
\* fetch of the page of the track at hand, the track at hand advances by
\* one when its file was closed or it was skipped, and a write that fails
\* partway leaves the file closed too.
C12_OneAtATime ==
    [][/\ handle.open <=> pc = "Streaming"
       /\ handle'.open <=> pc' = "Streaming"
       /\ FetchesDetail
             => /\ ~handle.open
                /\ pc = "Downloading"
                /\ calls'[1] = DetailCall(info.soundtracks_page_url[trackIdx])
                /\ \A i \in 2..Len(calls') : calls'[i].kind # "detail"
       /\ (pc \notin {"Downloading", "Streaming"} /\ pc' = "Downloading")
             => trackIdx' = 1
       /\ (pc = "Downloading" /\ pc' = "Streaming")
             => /\ trackIdx' = trackIdx
                /\ handle'.name = TargetOf(detail').filename
       /\ (pc \in {"Downloading", "Streaming"} /\ pc' = "Downloading")
             => trackIdx' = trackIdx + 1
       /\ (pc = "Streaming" /\ pc' = "Streaming") => handle' = handle
       /\ (pc = "Streaming" /\ printed'.kind = "error")
             => ~handle'.open /\ pc' = "AwaitingUrl"
      ]_vars

\* the second track is being streamed after the first one's file was
\* written to its end and closed
C12_Witness ==
    /\ pc = "Streaming"
    /\ trackIdx = 2
    /\ download_count = 1
    /\ handle.open
    /\ calls[1] = DetailCall(info.soundtracks_page_url[2])
    /\ \E n \in FileNames \ {handle.name} : files[n].chunks = MaxChunks

\* the file the track at hand resolves to is in the output directory, left
\* empty or cut short by a download that broke mid-stream
TargetIsPartial ==
    /\ TargetExists
    /\ files[TargetOf(detail').filename].chunks < MaxChunks

\* C13: a zero-byte or truncated file left at the destination path by an
\* interrupted download is never taken for a downloaded one: on a later run
\* over the same directory the track is not skipped by the exists-check and
\* its file is requested again.
C13_Claim ==
    [][TargetIsPartial =>
          /\ printed'.kind # "Skipping"
          /\ \E i \in 1..Len(calls') : calls'[i].kind = "file"]_vars

====
